---- MODULE Spec2Model ----
(***************************************************************************)
(* Order-fulfillment concurrency core: the inventory ledger                *)
(* (inventory/models.py, inventory/views.py, inventory/signals.py), order  *)
(* creation (orders/serializers.py, orders/views.py), the order aggregate  *)
(* (orders/models.py, orders/signals.py), the lifecycle worker and the     *)
(* stale-order reconciler (orders/tasks.py).                               *)
(*                                                                         *)
(* Database semantics assumed throughout: PostgreSQL at READ COMMITTED     *)
(* (settings/development.py:38).  A statement outside transaction.atomic   *)
(* commits by itself; select_for_update takes the row lock and reads the   *)
(* latest committed row; the lock is held until the outermost transaction  *)
(* ends; writes of an open transaction are invisible to the others; a      *)
(* value below zero in a PositiveIntegerField column is refused by the     *)
(* database (IntegrityError).                                              *)
(***************************************************************************)
EXTENDS Integers, Sequences, FiniteSets, TLC

(***************************************************************************)
(* Bounds of the model.                                                    *)
(***************************************************************************)
MaxQty == 3
MaxArg == 2
NumCallers == 2
NumAdjusts == 1
NumOrders == 2
NumWorkers == 2
NumRequests == 1
MaxSweeps == 1
MinThreshold == 1

Products == {"A", "B"}          \* products that have an InventoryItem row
MissingProduct == "Z"           \* a product id with no InventoryItem row
ProductIds == Products \cup {MissingProduct}
LedgerProducts == {"A", MissingProduct}   \* the product ids direct calls are made with
Callers == 1 .. NumCallers
Adjusters == 1 .. NumAdjusts
OrderIds == 1 .. NumOrders
Workers == 1 .. NumWorkers
Requests == 1 .. NumRequests
Reconciler == <<"recon", 1>>
ProcIds == ({"worker"} \X Workers) \cup {Reconciler} \cup ({"request"} \X Requests)
Free == <<"free", 0>>

Max(a, b) == IF a >= b THEN a ELSE b
Abs(a) == IF a >= 0 THEN a ELSE -a

VARIABLES
    inventory,      \* [Products -> [quantity, reserved_quantity]]: committed InventoryItem rows
    transactions,   \* [Products -> Seq(InventoryTransaction)]: committed rows, creation order
    rowLock,        \* [Products -> holder]: who holds the InventoryItem row lock
    call,           \* [Callers -> ...]: direct reserve_stock/release_stock/fulfill_order calls
    adj,            \* [Adjusters -> ...]: InventoryViewSet.adjust requests
    inventory0,     \* the InventoryItem rows of the initial state (never changes)
    orders,         \* [OrderIds -> Order row]: committed Order rows
    order_items,    \* [OrderIds -> Seq([product_id, quantity])]: committed OrderItem rows
    queue,          \* [OrderIds -> Nat]: process_order tasks enqueued and not yet started
    creq,           \* [OrderIds -> ...]: order-creation requests (request c creates order c)
    now,            \* timezone.now(), in minutes
    history,        \* [OrderIds -> Seq([from_status, to_status])]: OrderStatusHistory rows, creation order
    proc,           \* [ProcIds -> ...]: celery workers, the reconciler, cancel/admin requests
    events,         \* [OrderIds -> Seq(...)]: record of the update_status calls made on
                    \* each order (observation only)
    settlements     \* [OrderIds -> Seq(...)]: record of the release_stock/fulfill_order
                    \* calls made for each order (observation only)

ledgerVars == <<inventory, transactions, rowLock>>
callVars == <<call, adj>>
orderVars == <<orders, order_items>>
lifeVars == <<history, proc, events, settlements>>
orderSide == <<orders, order_items, queue, creq, now, lifeVars>>
vars == <<inventory, transactions, rowLock, call, adj, inventory0,
          orders, order_items, queue, creq, now, history, proc, events, settlements>>

(***************************************************************************)
(* InventoryItem.available_quantity                                        *)
(***************************************************************************)
available_quantity(inv) == Max(0, inv.quantity - inv.reserved_quantity)

InventoryTransaction(type, qty, pq, nq, pr, nr) ==
    [transaction_type |-> type, quantity |-> qty,
     previous_quantity |-> pq, new_quantity |-> nq,
     previous_reserved |-> pr, new_reserved |-> nr]

(***************************************************************************)
(* Low stock (inventory/views.py): every item                              *)
(* has the same minimum_threshold, which no modelled operation changes.    *)
(***************************************************************************)
minimum_threshold == [p \in Products |-> MinThreshold]

\* InventoryViewSet.low_stock_alerts: filter(quantity__lte=F('minimum_threshold'))
low_stock_alerts(rows) == {p \in Products : rows[p].quantity <= minimum_threshold[p]}

(***************************************************************************)
(* pre_save track_inventory_changes + post_save log_inventory_changes:     *)
(* the rows InventoryItem.save() itself appends.  prev is the row in the   *)
(* database when save() runs, new the instance being saved, log the        *)
(* item's rows so far.                                                     *)
(***************************************************************************)
log_inventory_changes(prev, new, log) ==
    IF /\ (prev.quantity # new.quantity \/ prev.reserved_quantity # new.reserved_quantity)
       /\ prev.quantity # new.quantity
       /\ ~ \E i \in 1 .. Len(log) :
              /\ log[i].new_quantity = new.quantity
              /\ log[i].new_reserved = new.reserved_quantity
    THEN << InventoryTransaction(
               IF new.quantity - prev.quantity > 0 THEN "RECEIVE" ELSE "ADJUST",
               Abs(new.quantity - prev.quantity),
               prev.quantity, new.quantity,
               prev.reserved_quantity, new.reserved_quantity) >>
    ELSE << >>

(***************************************************************************)
(* The body of the three ledger operations once the row is locked: inv is  *)
(* the row read under the lock, log the item's transaction rows.  The      *)
(* outcome is the return value ("True", "False", or "IntegrityError" when  *)
(* the database refuses the UPDATE), the row and the log to commit.        *)
(***************************************************************************)
Outcome(ret, row, log) == [ret |-> ret, row |-> row, log |-> log]

\* a reserve that checks the total quantity instead of the available one
reserve_stock_unchecked(inv, qty, log) ==
    IF inv.quantity >= qty
    THEN LET new == [inv EXCEPT !.reserved_quantity = @ + qty]
         IN  Outcome("True", new,
                     log \o << InventoryTransaction("RESERVE", qty,
                                   new.quantity, new.quantity,
                                   new.reserved_quantity - qty, new.reserved_quantity) >>)
    ELSE Outcome("False", inv, log)

reserve_stock(inv, qty, log) ==
    IF available_quantity(inv) >= qty
    THEN LET new == [inv EXCEPT !.reserved_quantity = @ + qty]
         IN  Outcome("True", new,
                     log \o log_inventory_changes(inv, new, log)
                         \o << InventoryTransaction("RESERVE", qty,
                                   new.quantity, new.quantity,
                                   new.reserved_quantity - qty, new.reserved_quantity) >>)
    ELSE Outcome("False", inv, log)

\* a release that checks the total quantity instead of the reserved one
release_stock_unchecked(inv, qty, log) ==
    IF inv.quantity >= qty
    THEN LET new == [inv EXCEPT !.reserved_quantity = @ - qty]
         IN  Outcome("True", new,
                     log \o << InventoryTransaction("RELEASE", qty,
                                   new.quantity, new.quantity,
                                   new.reserved_quantity + qty, new.reserved_quantity) >>)
    ELSE Outcome("False", inv, log)

release_stock(inv, qty, log) ==
    IF inv.reserved_quantity >= qty
    THEN LET new == [inv EXCEPT !.reserved_quantity = @ - qty]
         IN  Outcome("True", new,
                     log \o log_inventory_changes(inv, new, log)
                         \o << InventoryTransaction("RELEASE", qty,
                                   new.quantity, new.quantity,
                                   new.reserved_quantity + qty, new.reserved_quantity) >>)
    ELSE Outcome("False", inv, log)

fulfill_order(inv, qty, log) ==
    IF inv.reserved_quantity >= qty
    THEN LET new == [quantity |-> inv.quantity - qty,
                     reserved_quantity |-> inv.reserved_quantity - qty]
         IN  IF new.quantity < 0
             THEN Outcome("IntegrityError", inv, log)
             ELSE Outcome("True", new,
                     log \o log_inventory_changes(inv, new, log)
                         \o << InventoryTransaction("FULFILL", qty,
                                   new.quantity + qty, new.quantity,
                                   new.reserved_quantity + qty, new.reserved_quantity) >>)
    ELSE Outcome("False", inv, log)

LedgerOps == {"reserve", "release", "fulfill"}

LedgerOp(op, inv, qty, log) ==
    CASE op = "reserve" -> reserve_stock(inv, qty, log)
      [] op = "release" -> release_stock(inv, qty, log)
      [] op = "fulfill" -> fulfill_order(inv, qty, log)

(***************************************************************************)
(* select_for_update().get(product_id=...): the row lock.                  *)
(***************************************************************************)
RowLockIgnored(p) == TRUE

RowLockAvailable(p) == rowLock[p] = Free

NoSnap == [quantity |-> 0, reserved_quantity |-> 0]

IdleCall == [pc |-> "idle", op |-> "reserve", product_id |-> "A", quantity |-> 0,
             ret |-> "None", snap |-> NoSnap]

(***************************************************************************)
(* A direct call of a ledger classmethod by caller k.                      *)
(***************************************************************************)
LedgerStart(k) ==
    /\ call[k].pc = "idle"
    /\ \E op \in LedgerOps, p \in LedgerProducts, q \in 0 .. MaxArg :
          call' = [call EXCEPT ![k] = [@ EXCEPT !.pc = "called", !.op = op,
                                                !.product_id = p, !.quantity = q]]
    /\ UNCHANGED <<ledgerVars, adj, inventory0, orderSide>>

\* cls.DoesNotExist: the call returns False
LedgerNotFound(k) ==
    /\ call[k].pc = "called"
    /\ call[k].product_id \notin DOMAIN inventory
    /\ call' = [call EXCEPT ![k] = [@ EXCEPT !.pc = "done", !.ret = "False"]]
    /\ UNCHANGED <<ledgerVars, adj, inventory0, orderSide>>

\* transaction.atomic() entered, the row locked and read
LedgerLock(k) ==
    /\ call[k].pc = "called"
    /\ call[k].product_id \in DOMAIN inventory
    /\ RowLockAvailable(call[k].product_id)
    /\ rowLock' = [rowLock EXCEPT ![call[k].product_id] = <<"call", k>>]
    /\ call' = [call EXCEPT ![k] = [@ EXCEPT !.pc = "locked",
                                            !.snap = inventory[call[k].product_id]]]
    /\ UNCHANGED <<inventory, transactions, adj, inventory0, orderSide>>

\* the check, save(), the transaction row, and the commit that frees the lock
LedgerCommit(k) ==
    /\ call[k].pc = "locked"
    /\ LET p == call[k].product_id
           out == LedgerOp(call[k].op, call[k].snap, call[k].quantity, transactions[p])
       IN  /\ inventory' = [inventory EXCEPT ![p] = out.row]
           /\ transactions' = [transactions EXCEPT ![p] = out.log]
           /\ rowLock' = [rowLock EXCEPT ![p] = Free]
           /\ call' = [call EXCEPT ![k] = [@ EXCEPT !.pc = "done", !.ret = out.ret]]
    /\ UNCHANGED <<adj, inventory0, orderSide>>

(***************************************************************************)
(* InventoryViewSet.adjust with InventoryAdjustmentSerializer.             *)
(***************************************************************************)
AdjustmentTypes == {"add", "remove", "set"}

IdleAdjust == [pc |-> "idle", product_id |-> "A", adjustment_type |-> "add",
               quantity |-> 0, snap |-> NoSnap]

\* validate_quantity: a removal of more than the loaded quantity is refused
validate_quantity(type, value, inv) == ~ (type = "remove" /\ value > inv.quantity)

new_quantity(type, qty, previous_quantity) ==
    CASE type = "add" -> previous_quantity + qty
      [] type = "remove" -> Max(0, previous_quantity - qty)
      [] OTHER -> qty

\* get_object() and serializer.is_valid(): the item is read without a lock
AdjustLoad(a) ==
    /\ adj[a].pc = "idle"
    /\ \E p \in LedgerProducts \cap Products, type \in AdjustmentTypes, q \in 0 .. MaxArg :
          adj' = [adj EXCEPT ![a] =
                    [pc |-> IF validate_quantity(type, q, inventory[p])
                            THEN "loaded" ELSE "rejected",
                     product_id |-> p, adjustment_type |-> type, quantity |-> q,
                     snap |-> inventory[p]]]
    /\ UNCHANGED <<ledgerVars, call, inventory0, orderSide>>

\* the atomic block: save() of the loaded instance (every column) and the ADJUST row
AdjustSave(a) ==
    /\ adj[a].pc = "loaded"
    /\ rowLock[adj[a].product_id] = Free
    /\ LET p == adj[a].product_id
           snap == adj[a].snap
           nq == new_quantity(adj[a].adjustment_type, adj[a].quantity, snap.quantity)
           new == [quantity |-> nq, reserved_quantity |-> snap.reserved_quantity]
           log == transactions[p]
       IN  /\ inventory' = [inventory EXCEPT ![p] = new]
           /\ transactions' = [transactions EXCEPT ![p] =
                 log \o log_inventory_changes(inventory[p], new, log)
                     \o << InventoryTransaction("ADJUST", Abs(nq - snap.quantity),
                               snap.quantity, nq,
                               snap.reserved_quantity, snap.reserved_quantity) >>]
    /\ adj' = [adj EXCEPT ![a] = [@ EXCEPT !.pc = "done"]]
    /\ UNCHANGED <<rowLock, call, inventory0, orderSide>>

(***************************************************************************)
(* Order rows.                                                             *)
(***************************************************************************)
NoTime == -1     \* a null DateTimeField

OrderStatus == {"pending", "processing", "shipped", "delivered", "cancelled", "failed"}

NoOrder == [exists |-> FALSE, status |-> "pending", version |-> 1,
            current_state_since |-> 0,
            processing_started_at |-> NoTime, completed_at |-> NoTime]

\* Order.objects.create(**validated_data): the column defaults of the model
NewOrder(t) == [NoOrder EXCEPT !.exists = TRUE, !.current_state_since = t]

OrderItem(p, q) == [product_id |-> p, quantity |-> q]

(***************************************************************************)
(* OrderViewSet.create with OrderCreateSerializer: validate_items, then    *)
(* create() inside the request's transaction.                              *)
(***************************************************************************)
ItemLists ==
    {<< >>, <<OrderItem("A", 1), OrderItem("A", 1)>>}
    \cup {<<OrderItem(p, q)>> : p \in Products, q \in 1 .. MaxArg}
    \cup {l \in {<<OrderItem(p1, q1), OrderItem(p2, q2)>> :
                      p1 \in Products, p2 \in Products,
                      q1 \in 1 .. MaxArg, q2 \in 1 .. MaxArg} :
             l[1].product_id # l[2].product_id}

\* validate_items, first part: at least one item, no product twice
items_well_formed(items) ==
    /\ Len(items) > 0
    /\ \A i, j \in 1 .. Len(items) : i # j => items[i].product_id # items[j].product_id

IdleCreate == [pc |-> "idle", items |-> << >>, idx |-> 0, outcome |-> "None",
               locked |-> {}, rows |-> [p \in Products |-> NoSnap],
               logs |-> [p \in Products |-> << >>], order |-> NoOrder]

\* the request arrives; is_valid() runs the shape checks of validate_items
CreateSubmit(c) ==
    /\ creq[c].pc = "idle"
    /\ \E items \in ItemLists :
          creq' = [creq EXCEPT ![c] =
                     IF items_well_formed(items)
                     THEN [@ EXCEPT !.pc = "validate", !.items = items, !.idx = 1]
                     ELSE [@ EXCEPT !.pc = "done", !.items = items, !.outcome = "invalid"]]
    /\ UNCHANGED <<ledgerVars, callVars, inventory0, orderVars, queue, now, lifeVars>>

\* validate_items, second part: one unlocked read of the item's inventory
CreateValidate(c) ==
    /\ creq[c].pc = "validate"
    /\ LET item == creq[c].items[creq[c].idx]
       IN  creq' = [creq EXCEPT ![c] =
              IF available_quantity(inventory[item.product_id]) < item.quantity
              THEN [@ EXCEPT !.pc = "done", !.outcome = "insufficient_stock"]
              ELSE IF creq[c].idx = Len(creq[c].items)
                   THEN [@ EXCEPT !.pc = "insert"]
                   ELSE [@ EXCEPT !.idx = @ + 1]]
    /\ UNCHANGED <<ledgerVars, callVars, inventory0, orderVars, queue, now, lifeVars>>

\* Order.objects.create: the row is inserted (uncommitted) and the post_save
\* handler order_created_or_updated enqueues process_order at once
CreateInsert(c) ==
    /\ creq[c].pc = "insert"
    /\ creq' = [creq EXCEPT ![c] = [@ EXCEPT !.pc = "reserve", !.idx = 1,
                                            !.order = NewOrder(now)]]
    /\ queue' = [queue EXCEPT ![<<c, 0>>] = @ + 1]
    /\ UNCHANGED <<ledgerVars, callVars, inventory0, orderVars, now, lifeVars>>

\* what a rolled-back transaction leaves of its InventoryItem writes: nothing
rollback_keeps_writes(c) == creq[c].locked

rollback_writes(c) == {}

\* OrderItem.objects.create and reserve_stock for item idx: the row is locked
\* (until the request's transaction ends) and read, the reservation is written
\* inside the transaction; a False makes create() raise, which rolls back
CreateReserve(c) ==
    /\ creq[c].pc = "reserve"
    /\ LET item == creq[c].items[creq[c].idx]
           p == item.product_id
           out == reserve_stock(inventory[p], item.quantity, transactions[p])
       IN  /\ RowLockAvailable(p)
           /\ IF out.ret = "True"
              THEN /\ rowLock' = [rowLock EXCEPT ![p] = <<"create", c>>]
                   /\ creq' = [creq EXCEPT ![c] =
                         [@ EXCEPT !.locked = @ \cup {p},
                                   !.rows[p] = out.row,
                                   !.logs[p] = SubSeq(out.log, Len(transactions[p]) + 1,
                                                      Len(out.log)),
                                   !.idx = @ + 1,
                                   !.pc = IF creq[c].idx = Len(creq[c].items)
                                          THEN "commit" ELSE "reserve"]]
                   /\ UNCHANGED <<inventory, transactions>>
              ELSE /\ rowLock' = [q \in Products |->
                                    IF q \in creq[c].locked THEN Free ELSE rowLock[q]]
                   /\ inventory' = [q \in Products |->
                                    IF q \in rollback_writes(c)
                                    THEN creq[c].rows[q] ELSE inventory[q]]
                   /\ transactions' = [q \in Products |->
                                    IF q \in rollback_writes(c)
                                    THEN transactions[q] \o creq[c].logs[q]
                                    ELSE transactions[q]]
                   /\ creq' = [creq EXCEPT ![c] =
                         [@ EXCEPT !.pc = "done", !.outcome = "reserve_failed",
                                   !.locked = {}]]
    /\ UNCHANGED <<callVars, inventory0, orderVars, queue, now, lifeVars>>

\* a lock wait that cannot end: c waits for a row held by d, and d for one held by c
Deadlocked(c) ==
    /\ creq[c].pc = "reserve"
    /\ \E d \in OrderIds \ {c} :
          /\ creq[d].pc = "reserve"
          /\ rowLock[creq[c].items[creq[c].idx].product_id] = <<"create", d>>
          /\ rowLock[creq[d].items[creq[d].idx].product_id] = <<"create", c>>

\* the database ends a deadlock by aborting one of the transactions
CreateDeadlockAbort(c) ==
    /\ Deadlocked(c)
    /\ rowLock' = [q \in Products |-> IF q \in creq[c].locked THEN Free ELSE rowLock[q]]
    /\ creq' = [creq EXCEPT ![c] = [@ EXCEPT !.pc = "done", !.outcome = "deadlock",
                                            !.locked = {}]]
    /\ UNCHANGED <<inventory, transactions, callVars, inventory0, orderVars, queue, now, lifeVars>>

\* the request's transaction commits: Order, OrderItems, InventoryItem updates and
\* InventoryTransaction rows become visible together, the row locks are freed
CreateCommit(c) ==
    /\ creq[c].pc = "commit"
    /\ inventory' = [q \in Products |->
                       IF q \in creq[c].locked THEN creq[c].rows[q] ELSE inventory[q]]
    /\ transactions' = [q \in Products |->
                       IF q \in creq[c].locked
                       THEN transactions[q] \o creq[c].logs[q] ELSE transactions[q]]
    /\ rowLock' = [q \in Products |-> IF q \in creq[c].locked THEN Free ELSE rowLock[q]]
    /\ orders' = [orders EXCEPT ![c] = creq[c].order]
    /\ order_items' = [order_items EXCEPT ![c] = creq[c].items]
    /\ creq' = [creq EXCEPT ![c] = [@ EXCEPT !.pc = "done", !.outcome = "created",
                                            !.locked = {}]]
    /\ UNCHANGED <<callVars, inventory0, queue, now, lifeVars>>

(***************************************************************************)
(* Order.update_status (orders/models.py) with the post_save handler       *)
(* handle_order_status_change (orders/signals.py).  A call is made by a    *)
(* process P on its own in-memory Order instance proc[P].inst; save()      *)
(* writes every column of that instance.  Outside a transaction the save,  *)
(* each release_stock/fulfill_order of the handler and the history insert  *)
(* commit one after the other.                                             *)
(***************************************************************************)
max_retries == 3
PendingThreshold == 5
ProcessingThreshold == 10
ShippedThreshold == 60
TimePoints == {0, 6, 11, 61}     \* the instants the clock is observed at

TerminalStatuses == {"delivered", "cancelled", "failed"}

EmptyQueue == [t \in OrderIds \X (0 .. max_retries) |-> 0]

IdleProc == [pc |-> "idle", kind |-> "none", order |-> 0, inst |-> NoOrder,
             target |-> "pending", old_status |-> "pending", idx |-> 0,
             after |-> "idle", ret |-> "None", retries |-> 0,
             list |-> << >>, pass |-> 0, handled |-> 0, sweeps |-> 0,
             countdown |-> 0]

\* the process goes on at pc; a process that ends forgets its locals
Goto(rec, pc) ==
    CASE pc = "idle" -> [IdleProc EXCEPT !.sweeps = rec.sweeps, !.handled = rec.handled,
                                         !.countdown = rec.countdown]
      [] pc = "done" -> [IdleProc EXCEPT !.pc = "done"]
      [] OTHER -> [rec EXCEPT !.pc = pc]

\* the guard of update_status, without the early return
status_always_changed(inst, new_status) == FALSE

\* if self.status == new_status: return False
status_unchanged(inst, new_status) == inst.status = new_status

\* the assignments of update_status without the completed_at branch
update_status_leaves_completed_at(inst, new_status, t) ==
    [inst EXCEPT !.status = new_status,
                 !.current_state_since = t,
                 !.version = @ + 1,
                 !.processing_started_at =
                     IF new_status = "processing" /\ @ = NoTime THEN t ELSE @]

\* the assignments of update_status before self.save()
update_status_instance(inst, new_status, t) ==
    [inst EXCEPT !.status = new_status,
                 !.current_state_since = t,
                 !.version = @ + 1,
                 !.processing_started_at =
                     IF new_status = "processing" /\ @ = NoTime THEN t ELSE @,
                 !.completed_at =
                     IF /\ ~ (new_status = "processing" /\ inst.processing_started_at = NoTime)
                        /\ new_status \in TerminalStatuses
                        /\ @ = NoTime
                     THEN t ELSE @]

UpdateEvent(from, to, ret, before, after) ==
    [from |-> from, to |-> to, ret |-> ret, before |-> before, after |-> after]

\* update_status(new_status) by P, up to and including self.save(); the caller
\* goes on at `after` when the call returns
UpdateStatus(P, new_status, after) ==
    LET o == proc[P].order
        inst == proc[P].inst
    IN  IF status_unchanged(inst, new_status)
        THEN /\ proc' = [proc EXCEPT ![P] = Goto([@ EXCEPT !.ret = "False"], after)]
             /\ events' = [events EXCEPT ![o] =
                   Append(@, UpdateEvent(inst.status, new_status, FALSE, orders[o], orders[o]))]
             /\ orders' = orders
        ELSE LET new == update_status_instance(inst, new_status, now)
             IN  /\ orders' = [orders EXCEPT ![o] = new]
                 /\ proc' = [proc EXCEPT ![P] =
                       [@ EXCEPT !.inst = new, !.target = new_status,
                                 !.old_status = inst.status, !.after = after, !.idx = 1,
                                 !.pc = IF new_status \in TerminalStatuses
                                           /\ Len(order_items[o]) > 0
                                        THEN "signal" ELSE "history"]]
                 /\ events' = [events EXCEPT ![o] =
                       Append(@, UpdateEvent(inst.status, new_status, TRUE, orders[o], new))]

\* which ledger operation handle_order_status_change calls for the saved status
SettleOp(status) == IF status \in {"cancelled", "failed"} THEN "release" ELSE "fulfill"

SettleEvent(op, p, q, ret, before, after) ==
    [op |-> op, product_id |-> p, quantity |-> q, ret |-> ret,
     before |-> before, after |-> after]

\* handle_order_status_change, one item of instance.items.all(): release_stock
\* or fulfill_order in its own transaction; the result is only logged, an
\* exception of the database leaves save() before the history row is written
\* (only fulfill_order can raise one, and only process_order handles it)
UpdateStatusSignal(P) ==
    /\ proc[P].pc = "signal"
    /\ LET o == proc[P].order
           item == order_items[o][proc[P].idx]
           p == item.product_id
           op == SettleOp(proc[P].inst.status)
           out == LedgerOp(op, inventory[p], item.quantity, transactions[p])
       IN  /\ RowLockAvailable(p)
           /\ inventory' = [inventory EXCEPT ![p] = out.row]
           /\ transactions' = [transactions EXCEPT ![p] = out.log]
           /\ settlements' = [settlements EXCEPT ![o] =
                 Append(@, SettleEvent(op, p, item.quantity, out.ret, inventory[p], out.row))]
           /\ proc' = [proc EXCEPT ![P] =
                 IF out.ret = "IntegrityError" THEN [@ EXCEPT !.pc = "error"]
                 ELSE IF proc[P].idx = Len(order_items[o]) THEN [@ EXCEPT !.pc = "history"]
                 ELSE [@ EXCEPT !.idx = @ + 1]]
    /\ UNCHANGED <<rowLock, callVars, inventory0, orderVars, queue, creq, now,
                   history, events>>

\* OrderStatusHistory.objects.create(...); return True
UpdateStatusHistory(P) ==
    /\ proc[P].pc = "history"
    /\ history' = [history EXCEPT ![proc[P].order] =
          Append(@, [from_status |-> proc[P].old_status, to_status |-> proc[P].target])]
    /\ proc' = [proc EXCEPT ![P] = Goto([@ EXCEPT !.ret = "True"], proc[P].after)]
    /\ UNCHANGED <<ledgerVars, callVars, inventory0, orderVars, queue, creq, now,
                   events, settlements>>

(***************************************************************************)
(* process_order (orders/tasks.py): one celery worker running one task.    *)
(***************************************************************************)
Worker(w) == <<"worker", w>>

\* the task is taken from the queue; Order.objects.get and the pending check
WorkerStart(w) ==
    /\ proc[Worker(w)].pc = "idle"
    /\ \E o \in OrderIds, r \in 0 .. max_retries :
          /\ queue[<<o, r>>] > 0
          /\ queue' = [queue EXCEPT ![<<o, r>>] = @ - 1]
          /\ proc' = [proc EXCEPT ![Worker(w)] =
                IF orders[o].exists /\ orders[o].status = "pending"
                THEN [@ EXCEPT !.pc = "loaded", !.kind = "process_order", !.order = o,
                               !.inst = orders[o], !.retries = r]
                ELSE @]
    /\ UNCHANGED <<ledgerVars, callVars, inventory0, orderVars, creq, now,
                   history, events, settlements>>

\* order.update_status(PROCESSING)
WorkerBegin(w) ==
    /\ proc[Worker(w)].pc = "loaded"
    /\ UpdateStatus(Worker(w), "processing", "sleep1")
    /\ UNCHANGED <<ledgerVars, callVars, inventory0, order_items, queue, creq, now,
                   history, settlements>>

\* after the first sleep: the injected failure, or update_status(SHIPPED)
WorkerProcessed(w) ==
    /\ proc[Worker(w)].pc = "sleep1"
    /\ \E fail \in BOOLEAN :
          UpdateStatus(Worker(w), IF fail THEN "failed" ELSE "shipped",
                                  IF fail THEN "idle" ELSE "sleep2")
    /\ UNCHANGED <<ledgerVars, callVars, inventory0, order_items, queue, creq, now,
                   history, settlements>>

\* after the second sleep: the injected failure, or update_status(DELIVERED)
WorkerShipped(w) ==
    /\ proc[Worker(w)].pc = "sleep2"
    /\ \E fail \in BOOLEAN :
          UpdateStatus(Worker(w), IF fail THEN "failed" ELSE "delivered", "idle")
    /\ UNCHANGED <<ledgerVars, callVars, inventory0, order_items, queue, creq, now,
                   history, settlements>>

\* an exception other than the injected failures reaches the except clause:
\* the next database call of the run raises (the get or save the run is about
\* to make, a ledger call of the post-save handler, the history insert)
WorkerRaise(w) ==
    /\ proc[Worker(w)].pc \in {"loaded", "sleep1", "sleep2", "signal", "history"}
    /\ proc' = [proc EXCEPT ![Worker(w)] = [@ EXCEPT !.pc = "error"]]
    /\ UNCHANGED <<ledgerVars, callVars, inventory0, orderVars, queue, creq, now,
                   history, events, settlements>>

\* countdown=60 * (2 ** self.request.retries)
retry_countdown(retries) == 60 * 2 ^ retries

\* except Exception: raise self.retry(...), until max_retries is reached
WorkerRetry(w) ==
    /\ proc[Worker(w)].pc = "error"
    /\ queue' = IF proc[Worker(w)].retries < max_retries
                THEN [queue EXCEPT ![<<proc[Worker(w)].order, proc[Worker(w)].retries + 1>>]
                                      = @ + 1]
                ELSE queue
    /\ proc' = [proc EXCEPT ![Worker(w)] =
          Goto([@ EXCEPT !.countdown = IF proc[Worker(w)].retries < max_retries
                                       THEN retry_countdown(proc[Worker(w)].retries)
                                       ELSE @], "idle")]
    /\ UNCHANGED <<ledgerVars, callVars, inventory0, orderVars, creq, now,
                   history, events, settlements>>

(***************************************************************************)
(* check_stale_orders (orders/tasks.py): one sweep goes through the three  *)
(* statuses in turn; the orders of a status are loaded by one query.       *)
(***************************************************************************)
PassStatus(pass) == <<"pending", "processing", "shipped">>[pass]

Threshold(status) ==
    CASE status = "pending" -> PendingThreshold
      [] status = "processing" -> ProcessingThreshold
      [] status = "shipped" -> ShippedThreshold

\* a query that never finds a stale order
StaleOrders_never(status, t) == {}

\* Order.objects.filter(status=status, current_state_since__lt=now - threshold)
StaleOrders(status, t) ==
    {o \in OrderIds : /\ orders[o].exists
                      /\ orders[o].status = status
                      /\ orders[o].current_state_since < t - Threshold(status)}

\* the instances of a query, in the model's default ordering (newest first)
RECURSIVE Loaded(_)
Loaded(S) ==
    IF S = {} THEN << >>
    ELSE LET o == CHOOSE x \in S : \A y \in S : y <= x
         IN  <<[order |-> o, inst |-> orders[o]]>> \o Loaded(S \ {o})

\* the sweep moves to the next instance of its list (rest), or runs the query
\* of the first status from `pass` on that has stale orders, or ends
RECURSIVE ReconNext(_, _, _)
ReconNext(rec, rest, pass) ==
    IF rest # << >>
    THEN [rec EXCEPT !.pc = "handle", !.list = rest, !.pass = pass,
                     !.order = rest[1].order, !.inst = rest[1].inst]
    ELSE IF pass = 3
         THEN Goto(rec, "idle")
         ELSE ReconNext(rec, Loaded(StaleOrders(PassStatus(pass + 1), now)), pass + 1)

ReconStart ==
    /\ proc[Reconciler].pc = "idle"
    /\ proc[Reconciler].sweeps < MaxSweeps
    /\ proc' = [proc EXCEPT ![Reconciler] =
          ReconNext([@ EXCEPT !.kind = "check_stale_orders", !.sweeps = @ + 1,
                              !.handled = 0], << >>, 0)]
    /\ UNCHANGED <<ledgerVars, callVars, inventory0, orderVars, queue, creq, now,
                   history, events, settlements>>

\* the update_status call made for a stale order of the current status
ReconHandle ==
    /\ proc[Reconciler].pc = "handle"
    /\ CASE proc[Reconciler].pass = 1 ->
               UpdateStatus(Reconciler, "pending", "enqueue")
         [] proc[Reconciler].pass = 2 ->
               \E retry \in BOOLEAN :
                  UpdateStatus(Reconciler, IF retry THEN "pending" ELSE "cancelled",
                                           IF retry THEN "enqueue" ELSE "advance")
         [] proc[Reconciler].pass = 3 ->
               UpdateStatus(Reconciler, "delivered", "advance")
    /\ UNCHANGED <<ledgerVars, callVars, inventory0, order_items, queue, creq, now,
                   history, settlements>>

\* process_order.delay(...) where the branch has one, stale_orders_handled += 1,
\* and the loop goes on
ReconAdvance ==
    /\ proc[Reconciler].pc \in {"enqueue", "advance"}
    /\ queue' = IF proc[Reconciler].pc = "enqueue"
                THEN [queue EXCEPT ![<<proc[Reconciler].order, 0>>] = @ + 1]
                ELSE queue
    /\ proc' = [proc EXCEPT ![Reconciler] =
          ReconNext([@ EXCEPT !.handled = @ + 1], Tail(proc[Reconciler].list),
                    proc[Reconciler].pass)]
    /\ UNCHANGED <<ledgerVars, callVars, inventory0, orderVars, creq, now,
                   history, events, settlements>>

(***************************************************************************)
(* OrderViewSet.cancel (orders/views.py) and the admin actions             *)
(* cancel_orders, mark_as_processing (orders/admin.py).                    *)
(***************************************************************************)
Request(r) == <<"request", r>>

RequestKinds == {"cancel", "cancel_orders", "mark_as_processing"}

\* the status check each of them makes on the instance it loaded
RequestAllowed(kind, status) ==
    CASE kind = "cancel" -> status \notin {"delivered", "cancelled"}
      [] kind = "cancel_orders" -> status \in {"pending", "processing"}
      [] kind = "mark_as_processing" -> status = "pending"

RequestTarget(kind) == IF kind = "mark_as_processing" THEN "processing" ELSE "cancelled"

\* get_object() / iteration of the admin queryset
RequestLoad(r) ==
    /\ proc[Request(r)].pc = "idle"
    /\ \E kind \in RequestKinds, o \in OrderIds :
          /\ orders[o].exists
          /\ proc' = [proc EXCEPT ![Request(r)] =
                [@ EXCEPT !.pc = "loaded", !.kind = kind, !.order = o, !.inst = orders[o]]]
    /\ UNCHANGED <<ledgerVars, callVars, inventory0, orderVars, queue, creq, now,
                   history, events, settlements>>

RequestRefused(r) ==
    /\ proc[Request(r)].pc = "loaded"
    /\ ~ RequestAllowed(proc[Request(r)].kind, proc[Request(r)].inst.status)
    /\ proc' = [proc EXCEPT ![Request(r)] = Goto(@, "done")]
    /\ UNCHANGED <<ledgerVars, callVars, inventory0, orderVars, queue, creq, now,
                   history, events, settlements>>

RequestUpdate(r) ==
    /\ proc[Request(r)].pc = "loaded"
    /\ RequestAllowed(proc[Request(r)].kind, proc[Request(r)].inst.status)
    /\ UpdateStatus(Request(r), RequestTarget(proc[Request(r)].kind), "done")
    /\ UNCHANGED <<ledgerVars, callVars, inventory0, order_items, queue, creq, now,
                   history, settlements>>

(***************************************************************************)
(* Order.is_stale (orders/models.py), a property evaluated on a loaded     *)
(* Order instance at the time t of the evaluation.                         *)
(***************************************************************************)
is_stale_thresholds == [pending |-> 5, processing |-> 10, shipped |-> 60]

\* an is_stale that also counts an order exactly at its threshold
is_stale_inclusive(inst, t) ==
    IF inst.status \notin DOMAIN is_stale_thresholds
    THEN FALSE
    ELSE inst.current_state_since <= t - is_stale_thresholds[inst.status]

is_stale(inst, t) ==
    IF inst.status \notin DOMAIN is_stale_thresholds
    THEN FALSE
    ELSE inst.current_state_since < t - is_stale_thresholds[inst.status]

\* a request loads an order and reads order.is_stale
EvaluateIsStale(r) ==
    /\ proc[Request(r)].pc = "idle"
    /\ \E o \in OrderIds :
          /\ orders[o].exists
          /\ proc' = [proc EXCEPT ![Request(r)] =
                [@ EXCEPT !.kind = "is_stale", !.order = o, !.inst = orders[o],
                          !.ret = IF is_stale(orders[o], now) THEN "True" ELSE "False"]]
    /\ UNCHANGED <<ledgerVars, callVars, inventory0, orderVars, queue, creq, now,
                   history, events, settlements>>

\* time passes
Tick ==
    /\ \E t \in TimePoints : t > now /\ now' = t
    /\ UNCHANGED <<ledgerVars, callVars, inventory0, orderVars, queue, creq,
                   history, proc, events, settlements>>

(***************************************************************************)
(* Initial inventories: rows with reserved_quantity <= quantity.           *)
(***************************************************************************)
InventoryRows ==
    {r \in [quantity : 0 .. MaxQty, reserved_quantity : 0 .. MaxQty] :
        r.reserved_quantity <= r.quantity}

(***************************************************************************)
(* SpecReserve: NumCallers concurrent reserve_stock("A", m) calls against  *)
(* a product with N available, NumCallers * m > N.                         *)
(***************************************************************************)
InitReserve ==
    /\ inventory \in [Products -> InventoryRows]
    /\ inventory["B"] = [quantity |-> 0, reserved_quantity |-> 0]
    /\ inventory0 = inventory
    /\ transactions = [p \in Products |-> << >>]
    /\ rowLock = [p \in Products |-> Free]
    /\ \E m \in 1 .. MaxQty + 1 :
          /\ NumCallers * m > available_quantity(inventory["A"])
          /\ call = [k \in Callers |-> [IdleCall EXCEPT !.pc = "called", !.quantity = m]]
    /\ adj = [a \in Adjusters |-> IdleAdjust]
    /\ orders = [o \in OrderIds |-> NoOrder]
    /\ order_items = [o \in OrderIds |-> << >>]
    /\ queue = EmptyQueue
    /\ history = [o \in OrderIds |-> << >>]
    /\ proc = [P \in ProcIds |-> IdleProc]
    /\ events = [o \in OrderIds |-> << >>]
    /\ settlements = [o \in OrderIds |-> << >>]
    /\ creq = [c \in OrderIds |-> IdleCreate]
    /\ now = 0

NextReserve ==
    \E k \in Callers : LedgerLock(k) \/ LedgerCommit(k)

SpecReserve == InitReserve /\ [][NextReserve]_vars

(***************************************************************************)
(* SpecLedger: direct ledger calls and administrative adjusts, any         *)
(* arguments, any interleaving.                                            *)
(***************************************************************************)
InitLedger ==
    /\ inventory \in [Products -> InventoryRows]
    /\ inventory["B"] = [quantity |-> 0, reserved_quantity |-> 0]
    /\ inventory0 = inventory
    /\ transactions = [p \in Products |-> << >>]
    /\ rowLock = [p \in Products |-> Free]
    /\ call = [k \in Callers |-> IdleCall]
    /\ adj = [a \in Adjusters |-> IdleAdjust]
    /\ orders = [o \in OrderIds |-> NoOrder]
    /\ order_items = [o \in OrderIds |-> << >>]
    /\ queue = EmptyQueue
    /\ history = [o \in OrderIds |-> << >>]
    /\ proc = [P \in ProcIds |-> IdleProc]
    /\ events = [o \in OrderIds |-> << >>]
    /\ settlements = [o \in OrderIds |-> << >>]
    /\ creq = [c \in OrderIds |-> IdleCreate]
    /\ now = 0

NextLedger ==
    \/ \E k \in Callers : LedgerStart(k)
    \/ \E k \in Callers : LedgerNotFound(k)
    \/ \E k \in Callers : LedgerLock(k)
    \/ \E k \in Callers : LedgerCommit(k)
    \/ \E a \in Adjusters : AdjustLoad(a)
    \/ \E a \in Adjusters : AdjustSave(a)

SpecLedger == InitLedger /\ [][NextLedger]_vars

(***************************************************************************)
(* SpecCreate: concurrent order-creation requests.                         *)
(***************************************************************************)
InitCreate ==
    /\ inventory \in [Products -> {r \in InventoryRows : r.reserved_quantity = 0}]
    /\ inventory0 = inventory
    /\ transactions = [p \in Products |-> << >>]
    /\ rowLock = [p \in Products |-> Free]
    /\ call = [k \in Callers |-> IdleCall]
    /\ adj = [a \in Adjusters |-> IdleAdjust]
    /\ orders = [o \in OrderIds |-> NoOrder]
    /\ order_items = [o \in OrderIds |-> << >>]
    /\ queue = EmptyQueue
    /\ history = [o \in OrderIds |-> << >>]
    /\ proc = [P \in ProcIds |-> IdleProc]
    /\ events = [o \in OrderIds |-> << >>]
    /\ settlements = [o \in OrderIds |-> << >>]
    /\ creq = [c \in OrderIds |-> IdleCreate]
    /\ now = 0

NextCreate ==
    \/ \E c \in OrderIds : CreateSubmit(c)
    \/ \E c \in OrderIds : CreateValidate(c)
    \/ \E c \in OrderIds : CreateInsert(c)
    \/ \E c \in OrderIds : CreateReserve(c)
    \/ \E c \in OrderIds : CreateDeadlockAbort(c)
    \/ \E c \in OrderIds : CreateCommit(c)

SpecCreate == InitCreate /\ [][NextCreate]_vars

(***************************************************************************)
(* The order lifecycle: the orders have been placed (the committed result  *)
(* of OrderCreateSerializer.create: a pending order of version 1, its      *)
(* items reserved, one process_order task enqueued for it); workers, the   *)
(* reconciler, cancel and admin requests and a stock adjustment then run   *)
(* in any interleaving.                                                    *)
(***************************************************************************)
PlacedItems == {<<OrderItem("A", 1)>>, <<OrderItem("A", 1), OrderItem("B", 1)>>}

\* the items of the orders 1 .. n, in the order they were reserved
RECURSIVE AllItems(_, _)
AllItems(items, n) ==
    IF n = 0 THEN << >> ELSE AllItems(items, n - 1) \o items[n]

\* the ledger after reserve_stock has run for each item of the sequence
RECURSIVE Reserved(_, _, _)
Reserved(seq, rows, logs) ==
    IF seq = << >> THEN [rows |-> rows, logs |-> logs]
    ELSE LET p == seq[1].product_id
             out == reserve_stock(rows[p], seq[1].quantity, logs[p])
         IN  Reserved(Tail(seq), [rows EXCEPT ![p] = out.row],
                      [logs EXCEPT ![p] = out.log])

\* the orders 1 .. n have been placed, the task of each enqueued `copies` times
PlacedWith(n, copies) ==
    /\ inventory0 = [p \in Products |-> [quantity |-> MaxQty, reserved_quantity |-> 0]]
    /\ order_items \in [OrderIds -> PlacedItems \cup {<< >>}]
    /\ \A o \in OrderIds : order_items[o] = << >> <=> o > n
    /\ LET placed == Reserved(AllItems(order_items, n), inventory0,
                              [p \in Products |-> << >>])
       IN  /\ inventory = placed.rows
           /\ transactions = placed.logs
    /\ rowLock = [p \in Products |-> Free]
    /\ call = [k \in Callers |-> IdleCall]
    /\ adj = [a \in Adjusters |-> IdleAdjust]
    /\ orders = [o \in OrderIds |-> IF o <= n THEN NewOrder(0) ELSE NoOrder]
    /\ queue = [t \in OrderIds \X (0 .. max_retries) |->
                   IF t[1] <= n /\ t[2] = 0 THEN copies ELSE 0]
    /\ history = [o \in OrderIds |-> << >>]
    /\ proc = [P \in ProcIds |-> IdleProc]
    /\ events = [o \in OrderIds |-> << >>]
    /\ settlements = [o \in OrderIds |-> << >>]
    /\ creq = [c \in OrderIds |-> IdleCreate]
    /\ now = 0

\* the orders 1 .. n have been placed
Placed(n) == PlacedWith(n, 1)

\* the scenarios below have a single worker taking the tasks
OneWorker == {1}

\* a worker and requests on the placed orders
Init == Placed(NumOrders)

Next ==
    \/ \E w \in OneWorker : WorkerStart(w)
    \/ \E w \in OneWorker : WorkerBegin(w)
    \/ \E w \in OneWorker : WorkerProcessed(w)
    \/ \E w \in OneWorker : WorkerShipped(w)
    \/ \E r \in Requests : RequestLoad(r)
    \/ \E r \in Requests : RequestRefused(r)
    \/ \E r \in Requests : RequestUpdate(r)
    \/ \E P \in ProcIds : UpdateStatusSignal(P)
    \/ \E P \in ProcIds : UpdateStatusHistory(P)

Spec == Init /\ [][Next]_vars

\* one order, a worker and the reconciler as time passes
InitSweep == Placed(1)

NextSweep ==
    \/ \E w \in OneWorker : WorkerStart(w)
    \/ \E w \in OneWorker : WorkerBegin(w)
    \/ \E w \in OneWorker : WorkerProcessed(w)
    \/ \E w \in OneWorker : WorkerShipped(w)
    \/ ReconStart
    \/ ReconHandle
    \/ ReconAdvance
    \/ \E P \in ProcIds : UpdateStatusSignal(P)
    \/ \E P \in ProcIds : UpdateStatusHistory(P)
    \/ Tick

SpecSweep == InitSweep /\ [][NextSweep]_vars

\* one order, a worker, a request and a stock adjustment of its product
InitAdjust == Placed(1)

NextAdjust ==
    \/ \E w \in OneWorker : WorkerStart(w)
    \/ \E w \in OneWorker : WorkerBegin(w)
    \/ \E w \in OneWorker : WorkerProcessed(w)
    \/ \E w \in OneWorker : WorkerShipped(w)
    \/ \E w \in OneWorker : WorkerRetry(w)
    \/ \E r \in Requests : RequestLoad(r)
    \/ \E r \in Requests : RequestRefused(r)
    \/ \E r \in Requests : RequestUpdate(r)
    \/ \E P \in ProcIds : UpdateStatusSignal(P)
    \/ \E P \in ProcIds : UpdateStatusHistory(P)
    \/ \E a \in Adjusters : AdjustLoad(a)
    \/ \E a \in Adjusters : AdjustSave(a)

SpecAdjust == InitAdjust /\ [][NextAdjust]_vars

\* the placed orders and one worker running their tasks, nothing else
InitRun == Placed(NumOrders)

NextRun ==
    \/ \E w \in OneWorker : WorkerStart(w)
    \/ \E w \in OneWorker : WorkerBegin(w)
    \/ \E w \in OneWorker : WorkerProcessed(w)
    \/ \E w \in OneWorker : WorkerShipped(w)
    \/ \E P \in ProcIds : UpdateStatusSignal(P)
    \/ \E P \in ProcIds : UpdateStatusHistory(P)
    \/ Tick

SpecRun == InitRun /\ [][NextRun]_vars

\* Two orders of one unit of A each, after the first has been released twice:
\* its run set it to processing, a cancel request loaded it and cancelled it
\* (first release), and the run then failed it from its own instance (second
\* release).  The second order is still pending with its task queued.  This
\* is a state of Spec; from it a worker and the reconciler go on as time passes.
InitSecondOrder ==
    LET items == [o \in OrderIds |-> IF o <= 2 THEN <<OrderItem("A", 1)>> ELSE << >>]
        stock == [p \in Products |-> [quantity |-> MaxQty, reserved_quantity |-> 0]]
        placed == Reserved(AllItems(items, 2), stock, [p \in Products |-> << >>])
        first == release_stock(placed.rows["A"], 1, placed.logs["A"])
        second == release_stock(first.row, 1, first.log)
        loaded == NewOrder(0)
        processing == update_status_instance(loaded, "processing", 0)
        cancelled == update_status_instance(processing, "cancelled", 0)
        failed == update_status_instance(processing, "failed", 0)
    IN  /\ inventory0 = stock
        /\ order_items = items
        /\ inventory = [placed.rows EXCEPT !["A"] = second.row]
        /\ transactions = [placed.logs EXCEPT !["A"] = second.log]
        /\ rowLock = [p \in Products |-> Free]
        /\ call = [k \in Callers |-> IdleCall]
        /\ adj = [a \in Adjusters |-> IdleAdjust]
        /\ orders = [o \in OrderIds |->
                        IF o = 1 THEN failed ELSE IF o = 2 THEN NewOrder(0) ELSE NoOrder]
        /\ queue = [t \in OrderIds \X (0 .. max_retries) |->
                       IF t = <<2, 0>> THEN 1 ELSE 0]
        /\ history = [o \in OrderIds |->
                         IF o = 1
                         THEN <<[from_status |-> "pending", to_status |-> "processing"],
                                [from_status |-> "processing", to_status |-> "cancelled"],
                                [from_status |-> "processing", to_status |-> "failed"]>>
                         ELSE << >>]
        /\ proc = [P \in ProcIds |->
                      IF P = Request(1) THEN Goto(IdleProc, "done") ELSE IdleProc]
        /\ events = [o \in OrderIds |->
                        IF o = 1
                        THEN <<UpdateEvent("pending", "processing", TRUE, loaded, processing),
                               UpdateEvent("processing", "cancelled", TRUE, processing, cancelled),
                               UpdateEvent("processing", "failed", TRUE, cancelled, failed)>>
                        ELSE << >>]
        /\ settlements = [o \in OrderIds |->
                             IF o = 1
                             THEN <<SettleEvent("release", "A", 1, first.ret,
                                                placed.rows["A"], first.row),
                                    SettleEvent("release", "A", 1, second.ret,
                                                first.row, second.row)>>
                             ELSE << >>]
        /\ creq = [c \in OrderIds |-> IdleCreate]
        /\ now = 0

NextSecondOrder ==
    \/ \E w \in OneWorker : WorkerStart(w)
    \/ \E w \in OneWorker : WorkerBegin(w)
    \/ \E w \in OneWorker : WorkerProcessed(w)
    \/ \E w \in OneWorker : WorkerShipped(w)
    \/ ReconStart
    \/ ReconHandle
    \/ ReconAdvance
    \/ \E P \in ProcIds : UpdateStatusSignal(P)
    \/ \E P \in ProcIds : UpdateStatusHistory(P)
    \/ Tick

SpecSecondOrder == InitSecondOrder /\ [][NextSecondOrder]_vars

\* orders without items, stored in any status one or two minutes ago, read by
\* requests as time passes
StoredAt == {0, 1}

InitStale ==
    /\ inventory0 = [p \in Products |-> [quantity |-> MaxQty, reserved_quantity |-> 0]]
    /\ inventory = inventory0
    /\ transactions = [p \in Products |-> << >>]
    /\ rowLock = [p \in Products |-> Free]
    /\ call = [k \in Callers |-> IdleCall]
    /\ adj = [a \in Adjusters |-> IdleAdjust]
    /\ orders \in [OrderIds -> {[NewOrder(t) EXCEPT !.status = st] :
                                   t \in StoredAt, st \in OrderStatus}]
    /\ order_items = [o \in OrderIds |-> << >>]
    /\ queue = EmptyQueue
    /\ history = [o \in OrderIds |-> << >>]
    /\ proc = [P \in ProcIds |-> IdleProc]
    /\ events = [o \in OrderIds |-> << >>]
    /\ settlements = [o \in OrderIds |-> << >>]
    /\ creq = [c \in OrderIds |-> IdleCreate]
    /\ now = 1

NextStale ==
    \/ \E r \in Requests : EvaluateIsStale(r)
    \/ Tick

SpecStale == InitStale /\ [][NextStale]_vars

\* one order and one worker whose runs can raise at any database call
InitRetry == Placed(1)

NextRetry ==
    \/ \E w \in OneWorker : WorkerStart(w)
    \/ \E w \in OneWorker : WorkerBegin(w)
    \/ \E w \in OneWorker : WorkerProcessed(w)
    \/ \E w \in OneWorker : WorkerShipped(w)
    \/ \E w \in OneWorker : WorkerRaise(w)
    \/ \E w \in OneWorker : WorkerRetry(w)
    \/ \E P \in ProcIds : UpdateStatusSignal(P)
    \/ \E P \in ProcIds : UpdateStatusHistory(P)

SpecRetry == InitRetry /\ [][NextRetry]_vars

\* One order whose task is in the queue or was dropped, a worker whose runs
\* can raise while the clock is at 0 (an outage that ends), and the reconciler
\* invoked again each time the clock moves on.
LostOrQueued == {0, 1}

InitLive == \E copies \in LostOrQueued : PlacedWith(1, copies)

\* an exception inside a run during the outage
WorkerRaiseEarly(w) == now = 0 /\ WorkerRaise(w)

\* time passes and check_stale_orders is due again
Beat ==
    /\ proc[Reconciler].pc = "idle"
    /\ \E t \in TimePoints : t > now /\ now' = t
    /\ proc' = [proc EXCEPT ![Reconciler] = [@ EXCEPT !.sweeps = 0]]
    /\ UNCHANGED <<ledgerVars, callVars, inventory0, orderVars, queue, creq,
                   history, events, settlements>>

NextLive ==
    \/ \E w \in OneWorker : WorkerStart(w)
    \/ \E w \in OneWorker : WorkerBegin(w)
    \/ \E w \in OneWorker : WorkerProcessed(w)
    \/ \E w \in OneWorker : WorkerShipped(w)
    \/ \E w \in OneWorker : WorkerRaiseEarly(w)
    \/ \E w \in OneWorker : WorkerRetry(w)
    \/ ReconStart
    \/ ReconHandle
    \/ ReconAdvance
    \/ \E P \in ProcIds : UpdateStatusSignal(P)
    \/ \E P \in ProcIds : UpdateStatusHistory(P)
    \/ Beat

\* queued runs are executed and go on, sweeps keep running, time passes;
\* nothing obliges a run to raise
FairLive ==
    /\ \A w \in OneWorker :
          /\ WF_vars(WorkerStart(w)) /\ WF_vars(WorkerBegin(w))
          /\ WF_vars(WorkerProcessed(w)) /\ WF_vars(WorkerShipped(w))
          /\ WF_vars(WorkerRetry(w))
    /\ WF_vars(ReconStart) /\ WF_vars(ReconHandle) /\ WF_vars(ReconAdvance)
    /\ \A P \in ProcIds : WF_vars(UpdateStatusSignal(P)) /\ WF_vars(UpdateStatusHistory(P))
    /\ WF_vars(Beat)

SpecLive == InitLive /\ [][NextLive]_vars /\ FairLive

\* one order whose task has been enqueued twice (by its creation and by a
\* reconciler sweep that found it stale in pending), and the workers
InitDuplicate == PlacedWith(1, 2)

NextDuplicate ==
    \/ \E w \in Workers : WorkerStart(w)
    \/ \E w \in Workers : WorkerBegin(w)
    \/ \E w \in Workers : WorkerProcessed(w)
    \/ \E w \in Workers : WorkerShipped(w)
    \/ \E P \in ProcIds : UpdateStatusSignal(P)
    \/ \E P \in ProcIds : UpdateStatusHistory(P)

SpecDuplicate == InitDuplicate /\ [][NextDuplicate]_vars

(***************************************************************************)
(* Claims about the ledger.                                                *)
(***************************************************************************)
AllCallsDone == \A k \in Callers : call[k].pc = "done"
Successes == Cardinality({k \in Callers : call[k].pc = "done" /\ call[k].ret = "True"})
Failures == Cardinality({k \in Callers : call[k].pc = "done" /\ call[k].ret = "False"})

\* C1: k concurrent reserve(A, m) calls with k*m > N available: at no point
\* have more than floor(N/m) succeeded, and once all have returned exactly
\* floor(N/m) returned True, the others False, and reserved_quantity has
\* grown by floor(N/m)*m.
C1_NoOversell ==
    LET N == available_quantity(inventory0["A"])
        m == call[1].quantity
    IN  /\ Successes * m <= N
        /\ AllCallsDone =>
              /\ Successes = N \div m
              /\ Failures = NumCallers - (N \div m)
              /\ inventory["A"].reserved_quantity =
                    inventory0["A"].reserved_quantity + (N \div m) * m
              /\ inventory["A"].quantity = inventory0["A"].quantity

C1_Witness ==
    /\ AllCallsDone
    /\ Successes >= 1
    /\ Failures >= 1
    /\ available_quantity(inventory["A"]) > 0

\* C3: in every committed state reserved_quantity <= quantity for every item.
C3_ReservedWithinQuantity ==
    \A p \in Products : inventory[p].reserved_quantity <= inventory[p].quantity

\* C10: a reserve call commits True iff available_quantity >= qty for the row
\* as it is while the lock is held; on True reserved_quantity grows by qty and
\* quantity is unchanged; on False no row and no transaction log changes.
C10_ReserveContract ==
    [][\A k \in Callers :
          (call[k].pc = "locked" /\ call[k].op = "reserve" /\ call'[k].pc = "done") =>
             LET p == call[k].product_id
                 q == call[k].quantity
             IN  /\ call'[k].ret \in {"True", "False"}
                 /\ call'[k].ret = "True" <=> available_quantity(inventory[p]) >= q
                 /\ call'[k].ret = "True" =>
                       /\ inventory'[p].reserved_quantity = inventory[p].reserved_quantity + q
                       /\ inventory'[p].quantity = inventory[p].quantity
                 /\ call'[k].ret = "False" =>
                       /\ inventory' = inventory
                       /\ transactions' = transactions]_vars

C10_Witness ==
    /\ \E k \in Callers :
          /\ call[k].pc = "done" /\ call[k].op = "reserve" /\ call[k].ret = "True"
          /\ call[k].quantity > 0
          /\ inventory["A"].reserved_quantity >= call[k].quantity
    /\ \E k \in Callers :
          /\ call[k].pc = "done" /\ call[k].op = "reserve" /\ call[k].ret = "False"
          /\ call[k].product_id \in Products

\* C23: a reserve call for a product id that has no InventoryItem ends in a
\* NotFound outcome, which is neither of the booleans the call returns for a
\* stock decision, and changes no row and no transaction log.
C23_ReserveNotFound ==
    [][\A k \in Callers :
          (/\ call[k].pc = "called" /\ call[k].op = "reserve"
           /\ call[k].product_id \notin DOMAIN inventory
           /\ call'[k].pc = "done") =>
             /\ call'[k].ret \notin {"True", "False"}
             /\ inventory' = inventory
             /\ transactions' = transactions]_vars

\* the step in which caller k's call of op commits and returns
Returns(k, op) == call[k].pc = "locked" /\ call[k].op = op /\ call'[k].pc = "done"

\* C11: a release call returns True iff reserved_quantity >= qty for the row as
\* it is while the lock is held; on True reserved_quantity goes down by qty and
\* quantity is unchanged; on False no row and no transaction log changes.
C11_ReleaseContract ==
    [][\A k \in Callers :
          Returns(k, "release") =>
             LET p == call[k].product_id
                 q == call[k].quantity
             IN  /\ call'[k].ret \in {"True", "False"}
                 /\ call'[k].ret = "True" <=> inventory[p].reserved_quantity >= q
                 /\ call'[k].ret = "True" =>
                       /\ inventory'[p].reserved_quantity = inventory[p].reserved_quantity - q
                       /\ inventory'[p].quantity = inventory[p].quantity
                 /\ call'[k].ret = "False" =>
                       /\ inventory' = inventory
                       /\ transactions' = transactions]_vars

\* a release of a positive quantity has succeeded and another has been refused
C11_Witness ==
    /\ \E k \in Callers :
          /\ call[k].pc = "done" /\ call[k].op = "release" /\ call[k].ret = "True"
          /\ call[k].quantity > 0
          /\ \E i \in 1 .. Len(transactions["A"]) :
                /\ transactions["A"][i].transaction_type = "RELEASE"
                /\ transactions["A"][i].new_reserved =
                      transactions["A"][i].previous_reserved - call[k].quantity
    /\ \E k \in Callers :
          /\ call[k].pc = "done" /\ call[k].op = "release" /\ call[k].ret = "False"
          /\ call[k].product_id \in Products

\* C12: a fulfill call returns True iff reserved_quantity >= qty for the row as
\* it is while the lock is held; on True quantity and reserved_quantity both go
\* down by qty; on False no row and no transaction log changes.
C12_FulfillContract ==
    [][\A k \in Callers :
          Returns(k, "fulfill") =>
             LET p == call[k].product_id
                 q == call[k].quantity
             IN  /\ call'[k].ret \in {"True", "False"}
                 /\ call'[k].ret = "True" <=> inventory[p].reserved_quantity >= q
                 /\ call'[k].ret = "True" =>
                       /\ inventory'[p].reserved_quantity = inventory[p].reserved_quantity - q
                       /\ inventory'[p].quantity = inventory[p].quantity - q
                       /\ available_quantity(inventory'[p]) = available_quantity(inventory[p])
                 /\ call'[k].ret = "False" =>
                       /\ inventory' = inventory
                       /\ transactions' = transactions]_vars

\* the transaction type each ledger operation logs
LoggedType(op) ==
    CASE op = "reserve" -> "RESERVE"
      [] op = "release" -> "RELEASE"
      [] op = "fulfill" -> "FULFILL"
      [] op = "adjust" -> "ADJUST"

\* the step appends to p's log exactly one row, of the type of op, holding p's
\* counters before and after the step
OneRowLogged(p, op) ==
    /\ Len(transactions'[p]) = Len(transactions[p]) + 1
    /\ SubSeq(transactions'[p], 1, Len(transactions[p])) = transactions[p]
    /\ LET row == transactions'[p][Len(transactions'[p])]
       IN  /\ row.transaction_type = LoggedType(op)
           /\ row.previous_quantity = inventory[p].quantity
           /\ row.new_quantity = inventory'[p].quantity
           /\ row.previous_reserved = inventory[p].reserved_quantity
           /\ row.new_reserved = inventory'[p].reserved_quantity

\* C31: a reservation that brings an item's available_quantity to or below
\* its minimum_threshold makes the item appear in the low-stock query: after a
\* successful reserve the item is in the result of low_stock_alerts iff its
\* available_quantity <= minimum_threshold.
C31_LowStockAfterReserve ==
    [][\A k \in Callers :
          (Returns(k, "reserve") /\ call'[k].ret = "True") =>
             LET p == call[k].product_id
             IN  p \in low_stock_alerts(inventory') <=>
                    available_quantity(inventory'[p]) <= minimum_threshold[p]]_vars

\* C32: reserve, release and fulfill with qty = 0 are no-op successes: the
\* call returns True and leaves quantity, reserved_quantity and the item's
\* transaction log exactly as they were.
C32_ZeroQuantityNoOp ==
    [][\A k \in Callers : \A op \in LedgerOps :
          (Returns(k, op) /\ call[k].quantity = 0) =>
             /\ call'[k].ret = "True"
             /\ inventory' = inventory
             /\ transactions' = transactions]_vars

\* the step in which adjust request a saves the item
AdjustSaves(a) == adj[a].pc = "loaded" /\ adj'[a].pc = "done"

\* C28: quantity of an item decreases only through a successful fulfill_order
\* or a downward adjust; reserve_stock and release_stock, successful or not,
\* leave quantity unchanged; and after every step of any sequence of reserve,
\* release and fulfill calls available_quantity is quantity - reserved_quantity
\* and is not negative.
C28_QuantityFrame ==
    [][/\ \A p \in Products :
             inventory'[p].quantity < inventory[p].quantity =>
                \/ \E k \in Callers :
                      /\ Returns(k, "fulfill") /\ call[k].product_id = p
                      /\ call'[k].ret = "True"
                \/ \E a \in Adjusters : AdjustSaves(a) /\ adj[a].product_id = p
       /\ \A k \in Callers :
             LET p == call[k].product_id
             IN  /\ Returns(k, "reserve") \/ Returns(k, "release") =>
                       inventory'[p].quantity = inventory[p].quantity
                 /\ (\E op \in LedgerOps : Returns(k, op)) =>
                       /\ available_quantity(inventory'[p]) =
                             inventory'[p].quantity - inventory'[p].reserved_quantity
                       /\ available_quantity(inventory'[p]) >= 0]_vars

\* C29: an adjust never changes reserved_quantity: whatever reserve, release
\* and fulfill calls interleave with it, the save of an adjust (add, remove or
\* set) leaves the stored reserved_quantity of the item as those calls made it.
C29_AdjustKeepsReserved ==
    [][\A a \in Adjusters :
          AdjustSaves(a) =>
             inventory'[adj[a].product_id].reserved_quantity =
                inventory[adj[a].product_id].reserved_quantity]_vars

\* C30: the InventoryTransaction rows of one item are a running total in commit
\* order: each row starts from the quantity and reserved count the row before
\* it ended with, and the last row ends with the item's stored counters.
C30_RunningTotal ==
    \A p \in Products :
       LET log == transactions[p]
       IN  /\ \A n \in 1 .. Len(log) - 1 :
                /\ log[n].new_quantity = log[n + 1].previous_quantity
                /\ log[n].new_reserved = log[n + 1].previous_reserved
           /\ log # << >> =>
                /\ log[Len(log)].new_quantity = inventory[p].quantity
                /\ log[Len(log)].new_reserved = inventory[p].reserved_quantity

\* C13: every successful reserve, release, fulfill and adjust appends exactly one
\* InventoryTransaction row to the item's log, of the matching type, with the
\* item's counters before and after the operation; a failed one appends none.
C13_OneTransactionRow ==
    [][/\ \A k \in Callers : \A op \in LedgerOps :
             Returns(k, op) =>
                IF call'[k].ret = "True"
                THEN OneRowLogged(call[k].product_id, op)
                ELSE transactions' = transactions
       /\ \A a \in Adjusters :
             (adj[a].pc = "loaded" /\ adj'[a].pc = "done") =>
                OneRowLogged(adj[a].product_id, "adjust")]_vars

(***************************************************************************)
(* Claims about order creation.                                            *)
(***************************************************************************)
AllCreatesDone == \A c \in OrderIds : creq[c].pc = "done"
Created == {c \in OrderIds : creq[c].pc = "done" /\ creq[c].outcome = "created"}
RejectedForStock ==
    {c \in OrderIds : /\ creq[c].pc = "done"
                      /\ creq[c].outcome \in {"insufficient_stock", "reserve_failed"}}

\* the units of product p that request c asks for
Requested(c, p) ==
    IF \E i \in 1 .. Len(creq[c].items) : creq[c].items[i].product_id = p
    THEN LET i == CHOOSE i \in 1 .. Len(creq[c].items) : creq[c].items[i].product_id = p
         IN  creq[c].items[i].quantity
    ELSE 0

RECURSIVE SumRequested(_, _)
SumRequested(S, p) ==
    IF S = {} THEN 0
    ELSE LET c == CHOOSE c \in S : TRUE
         IN  Requested(c, p) + SumRequested(S \ {c}, p)

\* C2: when every request is a single-item order of m units of A, against N
\* available with NumOrders * m > N, then once all requests have ended exactly
\* floor(N/m) were created, the others were rejected for insufficient stock,
\* reserved_quantity grew by floor(N/m)*m and available_quantity is what is left.
C2_ConcurrentCreation ==
    (/\ AllCreatesDone
     /\ \A c \in OrderIds : Len(creq[c].items) = 1 /\ creq[c].items[1].product_id = "A"
     /\ \A c \in OrderIds : creq[c].items[1].quantity = creq[1].items[1].quantity
     /\ NumOrders * creq[1].items[1].quantity > available_quantity(inventory0["A"]))
    => LET m == creq[1].items[1].quantity
           N == available_quantity(inventory0["A"])
       IN  /\ Cardinality(Created) = N \div m
           /\ Cardinality(RejectedForStock) = NumOrders - (N \div m)
           /\ inventory["A"].reserved_quantity =
                 inventory0["A"].reserved_quantity + (N \div m) * m
           /\ available_quantity(inventory["A"]) = N - (N \div m) * m

C2_Witness ==
    /\ AllCreatesDone
    /\ \A c \in OrderIds : creq[c].items = <<OrderItem("A", 1)>>
    /\ Created # {}
    /\ \E c \in OrderIds : creq[c].outcome = "reserve_failed"
    /\ inventory["A"].reserved_quantity = inventory["A"].quantity

\* C4: a request that ended without creating its order left no Order row and no
\* OrderItem row, and the committed reserved_quantity of every product is the
\* initial one plus the items of the created orders only.
C4_AllOrNothing ==
    /\ \A c \in OrderIds :
          (creq[c].pc = "done" /\ creq[c].outcome # "created") =>
             /\ ~ orders[c].exists
             /\ order_items[c] = << >>
             /\ \A p \in Products : rowLock[p] # <<"create", c>>
    /\ \A p \in Products :
          /\ inventory[p].reserved_quantity =
                inventory0[p].reserved_quantity + SumRequested(Created, p)
          /\ inventory[p].quantity = inventory0[p].quantity
          /\ Len(transactions[p]) = Cardinality({c \in Created : Requested(c, p) > 0})

C4_Witness ==
    \E c \in OrderIds :
       /\ creq[c].pc = "done"
       /\ creq[c].outcome = "reserve_failed"
       /\ creq[c].idx = 2
       /\ creq[c].rows[creq[c].items[1].product_id].reserved_quantity
             >= creq[c].items[1].quantity
       /\ inventory[creq[c].items[1].product_id].reserved_quantity
             = SumRequested(Created, creq[c].items[1].product_id)

(***************************************************************************)
(* Claims about the order lifecycle.                                       *)
(***************************************************************************)
\* the reservation of the item settled by call i of order o is still held: no
\* earlier release or fulfill of this order succeeded for the item's product
Held(o, i) ==
    \A j \in 1 .. (i - 1) :
       ~ (/\ settlements[o][j].product_id = settlements[o][i].product_id
          /\ settlements[o][j].ret = "True")

\* C39: two concurrent order creations that reserve the same two products in
\* opposite item order never wait on each other for ever: no request is ever
\* in a lock wait that cannot end, and none has to be ended by the database
\* instead of completing with a success or an insufficient-stock rejection.
C39_NoCreationDeadlock ==
    \A c \in OrderIds : ~ Deadlocked(c) /\ creq[c].outcome # "deadlock"

\* C26: the lifecycle task is enqueued on commit of the order creation: a task
\* for an order is in the queue only when the creation transaction has
\* committed the order with all its items, and a creation that was rolled back
\* has enqueued none.
C26_EnqueuedOnCommit ==
    \A c \in OrderIds :
       queue[<<c, 0>>] > 0 =>
          /\ orders[c].exists
          /\ Len(order_items[c]) = Len(creq[c].items)
          /\ creq[c].outcome \notin {"reserve_failed", "deadlock"}

\* C5: when an order whose reservations are held reaches cancelled or failed,
\* the release made for each of its items succeeds: the product's
\* reserved_quantity goes down by exactly the item's quantity and its quantity
\* stays as it was.
C5_ReleaseOnCancel ==
    \A o \in OrderIds : \A i \in 1 .. Len(settlements[o]) :
       LET e == settlements[o][i]
       IN  (e.op = "release" /\ Held(o, i)) =>
              /\ e.ret = "True"
              /\ e.after.reserved_quantity = e.before.reserved_quantity - e.quantity
              /\ e.after.quantity = e.before.quantity

\* C6: when an order whose reservations are held reaches delivered, the
\* fulfilment made for each of its items succeeds: the product's quantity and
\* reserved_quantity both go down by exactly the item's quantity.
C6_FulfillOnDelivered ==
    \A o \in OrderIds : \A i \in 1 .. Len(settlements[o]) :
       LET e == settlements[o][i]
       IN  (e.op = "fulfill" /\ Held(o, i)) =>
              /\ e.ret = "True"
              /\ e.after.reserved_quantity = e.before.reserved_quantity - e.quantity
              /\ e.after.quantity = e.before.quantity - e.quantity

\* the update_status calls on order o that have saved and not yet returned
InFlight(o) == {P \in ProcIds : proc[P].order = o /\ proc[P].pc \in {"signal", "history"}}

\* the update_status call just made on order o, if this step made one
CallMade(o) == Len(events'[o]) = Len(events[o]) + 1

LastCall(o) == events'[o][Len(events'[o])]

\* C7: update_status(X) on an Order instance whose status is X returns False,
\* leaves the stored row (status, version, current_state_since) as it was and
\* appends no history row; a call that returns True leaves the instance with
\* status X, so repeating the call on it is this case again.
C7_SameStatusNoOp ==
    [][\A o \in OrderIds :
          CallMade(o) =>
             /\ LastCall(o).ret <=> LastCall(o).from # LastCall(o).to
             /\ LastCall(o).ret => LastCall(o).after.status = LastCall(o).to
             /\ LastCall(o).from = LastCall(o).to =>
                   /\ orders'[o] = orders[o]
                   /\ history'[o] = history[o]
                   /\ InFlight(o)' = InFlight(o)]_vars

\* the reconciler has called update_status(pending) on an order that is pending
C7_Witness ==
    \E o \in OrderIds : \E i \in 1 .. Len(events[o]) :
       /\ events[o][i].from = "pending"
       /\ events[o][i].to = "pending"
       /\ events[o][i].ret = FALSE
       /\ orders[o].version = 1
       /\ history[o] = << >>

\* this step is one of worker w's run
WorkerStep(w) == proc'[Worker(w)] # proc[Worker(w)]

\* C14: once the stored status of an order is delivered, cancelled or failed, no
\* step of a process_order run changes it, whether the run started before or
\* after the terminal status was stored.
C14_TerminalAbsorbing ==
    [][\A w \in Workers : \A o \in OrderIds :
          (WorkerStep(w) /\ orders[o].status \in TerminalStatuses) =>
             orders'[o].status = orders[o].status]_vars

\* C15: when an order has been cancelled while its process_order run is in one
\* of its two waits, the run makes no further status transition and the stored
\* order stays as the cancel left it.
C15_CancelHaltsRun ==
    [][\A w \in Workers :
          LET o == proc[Worker(w)].order
          IN  (/\ WorkerStep(w)
               /\ proc[Worker(w)].pc \in {"sleep1", "sleep2"}
               /\ orders[o].status = "cancelled") =>
                 /\ orders'[o] = orders[o]
                 /\ ~ (CallMade(o) /\ LastCall(o).ret)]_vars

\* C16: when the task of an order is enqueued twice and the two runs execute in
\* any interleaving, the order makes each transition of the pipeline at most
\* once and each of its items is released or fulfilled at most once.
C16_DuplicateRunNoOp ==
    \A o \in OrderIds :
       /\ \A i, j \in 1 .. Len(events[o]) :
             (i < j /\ events[o][i].ret /\ events[o][j].ret) =>
                events[o][i].to # events[o][j].to
       /\ \A i, j \in 1 .. Len(settlements[o]) :
             (i < j /\ settlements[o][i].product_id = settlements[o][j].product_id) =>
                ~ (settlements[o][i].ret = "True" /\ settlements[o][j].ret = "True")

\* the process_order run of order o is over: its task has been taken and no
\* worker is on the order
RunOver(o) ==
    /\ \A r \in 0 .. max_retries : queue[<<o, r>>] = 0
    /\ \A w \in Workers : proc[Worker(w)].order # o

\* the statuses update_status was called with on order o, in call order
RECURSIVE Targets(_)
Targets(calls) ==
    IF calls = << >> THEN << >> ELSE <<calls[1].to>> \o Targets(Tail(calls))

\* the history rows of a chain of statuses
RECURSIVE Chain(_)
Chain(statuses) ==
    IF Len(statuses) < 2 THEN << >>
    ELSE <<[from_status |-> statuses[1], to_status |-> statuses[2]]>>
            \o Chain(Tail(statuses))

\* C17: a process_order run on a pending order in which no failure is injected
\* ends with the order delivered and the history pending -> processing ->
\* shipped -> delivered; a run in which the failure of the processing stage is
\* injected ends with the order failed, completed_at set and no transition to
\* shipped in the history.
C17_TerminalCoverage ==
    \A o \in OrderIds :
       RunOver(o) =>
          /\ "failed" \notin {events[o][i].to : i \in 1 .. Len(events[o])} =>
                /\ orders[o].status = "delivered"
                /\ history[o] = Chain(<<"pending", "processing", "shipped", "delivered">>)
          /\ Targets(events[o]) = <<"processing", "failed">> =>
                /\ orders[o].status = "failed"
                /\ orders[o].completed_at # NoTime
                /\ history[o] = Chain(<<"pending", "processing", "failed">>)
                /\ \A i \in 1 .. Len(history[o]) : history[o][i].to_status # "shipped"

\* one order has run to delivered and the other has failed at the processing stage
C17_Witness ==
    \E o1, o2 \in OrderIds :
       /\ RunOver(o1) /\ RunOver(o2)
       /\ Targets(events[o1]) = <<"processing", "shipped", "delivered">>
       /\ orders[o1].status = "delivered"
       /\ Targets(events[o2]) = <<"processing", "failed">>
       /\ orders[o2].status = "failed"

\* the step in which the reconciler finishes with the stale order it is on
ReconDone == proc[Reconciler].pc \in {"enqueue", "advance"} /\ proc'[Reconciler] # proc[Reconciler]

\* C18: a sweep that finds an order stale in pending (pending for more than 5
\* minutes, untouched since the query) leaves it pending with
\* current_state_since refreshed to the time of the sweep and enqueues exactly
\* one process_order run for it.
C18_StalePendingRecovery ==
    [][LET o == proc[Reconciler].order
       IN  (/\ ReconDone
            /\ proc[Reconciler].pass = 1
            /\ orders[o] = proc[Reconciler].list[1].inst) =>
              /\ orders'[o].status = "pending"
              /\ orders'[o].current_state_since = now
              /\ queue'[<<o, 0>>] = queue[<<o, 0>>] + 1]_vars

\* this step is one the reconciler takes while on a stale order of the pass
ReconStep(pass) == proc[Reconciler].pass = pass /\ proc'[Reconciler] # proc[Reconciler]

\* the release_stock/fulfill_order call this step makes for order o
LastSettle(o) == settlements'[o][Len(settlements'[o])]

\* the step calls op for the item the handler is at, and the call succeeds with
\* the exact effect of op when the item's reservation is still held
SettlesItem(P, op) ==
    LET o == proc[P].order
        item == order_items[o][proc[P].idx]
        e == LastSettle(o)
    IN  /\ Len(settlements'[o]) = Len(settlements[o]) + 1
        /\ e.op = op
        /\ e.product_id = item.product_id
        /\ e.quantity = item.quantity
        /\ Held(o, Len(settlements[o]))' =>
              /\ e.ret = "True"
              /\ e.after.reserved_quantity = e.before.reserved_quantity - item.quantity
              /\ e.after.quantity =
                    e.before.quantity - (IF op = "fulfill" THEN item.quantity ELSE 0)

\* C19: for an order it found stale in processing, a sweep does one of two
\* things: it stores pending and enqueues one process_order run, calling no
\* release; or it stores cancelled, calls release_stock for every item of the
\* order and enqueues nothing.
C19_StaleProcessing ==
    [][LET R == proc[Reconciler]
           o == R.order
       IN  ReconStep(2) =>
              CASE R.pc = "handle" ->
                      /\ CallMade(o) /\ LastCall(o).ret
                      /\ LastCall(o).to \in {"pending", "cancelled"}
                      /\ orders'[o].status = LastCall(o).to
                      /\ queue' = queue /\ settlements' = settlements
                [] R.pc = "signal" ->
                      /\ R.target = "cancelled"
                      /\ SettlesItem(Reconciler, "release")
                      /\ queue' = queue
                [] R.pc = "history" ->
                      /\ R.target = "cancelled" => R.idx = Len(order_items[o])
                      /\ queue' = queue /\ settlements' = settlements
                [] R.pc = "enqueue" ->
                      /\ R.target = "pending"
                      /\ queue' = [queue EXCEPT ![<<o, 0>>] = @ + 1]
                      /\ settlements' = settlements
                [] R.pc = "advance" ->
                      /\ R.target = "cancelled"
                      /\ queue' = queue /\ settlements' = settlements
                [] OTHER -> TRUE]_vars

\* C20: for an order it found stale in shipped, a sweep stores delivered, calls
\* fulfill_order for every item of the order and enqueues no process_order run.
C20_StaleShipped ==
    [][LET R == proc[Reconciler]
           o == R.order
       IN  ReconStep(3) =>
              CASE R.pc = "handle" ->
                      /\ CallMade(o) /\ LastCall(o).ret
                      /\ LastCall(o).to = "delivered"
                      /\ orders'[o].status = "delivered"
                      /\ queue' = queue /\ settlements' = settlements
                [] R.pc = "signal" ->
                      /\ SettlesItem(Reconciler, "fulfill")
                      /\ queue' = queue
                [] R.pc = "history" ->
                      /\ R.idx = Len(order_items[o])
                      /\ queue' = queue /\ settlements' = settlements
                [] R.pc = "advance" ->
                      /\ queue' = queue /\ settlements' = settlements
                [] OTHER -> FALSE]_vars

\* the status the last completed transition of order o led to
LastCompleted(o) ==
    IF history[o] = << >> THEN "pending" ELSE history[o][Len(history[o])].to_status

\* C33: an unexpected exception inside a run triggers at most 3 retries, retry
\* n (n = 0, 1, 2) being scheduled 60 * 2^n later; once the retries are
\* exhausted nothing more is queued, and the stored status of the order is the
\* one its last successful transition set.
C33_BoundedRetry ==
    [][\A w \in Workers :
          (proc[Worker(w)].pc = "error" /\ proc'[Worker(w)].pc = "idle") =>
             LET o == proc[Worker(w)].order
                 n == proc[Worker(w)].retries
             IN  /\ n <= 3
                 /\ n < 3 => /\ queue' = [queue EXCEPT ![<<o, n + 1>>] = @ + 1]
                             /\ proc'[Worker(w)].countdown = <<60, 120, 240>>[n + 1]
                 /\ n = 3 => /\ queue' = queue
                             /\ orders[o].status = LastCompleted(o)]_vars

\* C34: processing_started_at is set by the first transition into processing
\* and completed_at by the first transition into a terminal status, and neither
\* is overwritten afterwards; current_state_since is the time of the order's
\* last committed status change.
C34_TimestampsSetOnce ==
    [][\A o \in OrderIds :
          (orders[o].exists /\ orders'[o] # orders[o]) =>
             LET b == orders[o]
                 a == orders'[o]
             IN  /\ b.processing_started_at # NoTime =>
                       a.processing_started_at = b.processing_started_at
                 /\ b.completed_at # NoTime => a.completed_at = b.completed_at
                 /\ (b.processing_started_at = NoTime /\ a.status = "processing") =>
                       a.processing_started_at = now
                 /\ (b.completed_at = NoTime /\ a.status \in TerminalStatuses) =>
                       a.completed_at = now
                 /\ a.current_state_since = IF a.status # b.status
                                            THEN now ELSE b.current_state_since]_vars

\* order o is stale as stored now: pending, processing or shipped for longer
\* than the threshold of its status
StaleNow(o) == \E pass \in 1 .. 3 : o \in StaleOrders(PassStatus(pass), now)

\* C35: a sweep changes only orders that are stale when it acts on them: an
\* order that is terminal or younger than its threshold when the sweep reaches
\* it (a worker may have moved it after the sweep's query) keeps its stored row
\* and its history and gets no new run; each handled order adds one to the
\* returned total.
C35_SweepTouchesOnlyStale ==
    [][/\ LET o == proc[Reconciler].order
          IN  (/\ proc[Reconciler].pc = "handle"
               /\ proc'[Reconciler] # proc[Reconciler]
               /\ ~ StaleNow(o)) =>
                 /\ orders'[o] = orders[o]
                 /\ history'[o] = history[o]
                 /\ proc'[Reconciler].pc # "enqueue"
                 /\ ~ (/\ proc'[Reconciler].pc \in {"signal", "history"}
                       /\ proc'[Reconciler].after = "enqueue")
       /\ ReconDone => proc'[Reconciler].handled = proc[Reconciler].handled + 1]_vars

\* the units of product p in a sequence of order items
RECURSIVE UnitsOf(_, _)
UnitsOf(items, p) ==
    IF items = << >> THEN 0
    ELSE (IF items[1].product_id = p THEN items[1].quantity ELSE 0)
         + UnitsOf(Tail(items), p)

\* the units of product p in the orders of S that are pending, processing or shipped
RECURSIVE OpenUnits(_, _)
OpenUnits(S, p) ==
    IF S = {} THEN 0
    ELSE LET o == CHOOSE x \in S : TRUE
         IN  (IF orders[o].exists /\ orders[o].status \notin TerminalStatuses
              THEN UnitsOf(order_items[o], p) ELSE 0)
             + OpenUnits(S \ {o}, p)

\* C36: in every quiescent state (no transition between its save and its
\* return, no adjust) the reserved_quantity of each product is the sum of the
\* item quantities for that product over the orders that are pending,
\* processing or shipped.
C36_ReservationConservation ==
    (\A o \in OrderIds : InFlight(o) = {}) =>
       \A p \in Products : inventory[p].reserved_quantity = OpenUnits(OrderIds, p)

\* C37: over the whole life of an order the reservation of each of its items
\* is settled at most once: for each product of the order at most one
\* release_stock or fulfill_order call made for the order succeeds, whatever
\* the worker, the cancel requests and the admin actions do.
C37_SettleOnce ==
    \A o \in OrderIds : \A p \in Products :
       Cardinality({j \in 1 .. Len(settlements[o]) :
                       /\ settlements[o][j].product_id = p
                       /\ settlements[o][j].ret = "True"}) <= 1

\* C38: for every order the number of its history rows is version - 1, the
\* rows in creation order form a chain (each from_status is the to_status of
\* the row before, the first starts from pending) and the last to_status is the
\* stored status, also when a worker, a cancel request and an admin action
\* update the same order concurrently (read in the states where no
\* update_status call is between its save and its history row).
C38_HistoryMatchesVersion ==
    \A o \in OrderIds :
       (orders[o].exists /\ InFlight(o) = {}) =>
          /\ Len(history[o]) = orders[o].version - 1
          /\ \A n \in 1 .. Len(history[o]) :
                history[o][n].from_status =
                   IF n = 1 THEN "pending" ELSE history[o][n - 1].to_status
          /\ LastCompleted(o) = orders[o].status

\* C40: provided sweeps keep running and queued runs are executed, every
\* created order eventually reaches delivered, cancelled or failed, also when
\* its task never started, was dropped, or died after exhausting its retries.
C40_EventuallyTerminal ==
    \A o \in OrderIds :
       orders[o].exists ~> orders[o].status \in TerminalStatuses

\* an order that a sweep found stale and sent back to a run (the call for
\* pending is made by the reconciler only) has become terminal
C40_Witness ==
    \E o \in OrderIds :
       /\ orders[o].status \in TerminalStatuses
       /\ proc[Reconciler].handled > 0
       /\ \E i \in 1 .. Len(events[o]) : events[o][i].to = "pending"

\* C21: when the reconciler and a worker race on an order, an update_status
\* call for the status the other has already stored is a no-op (it returns
\* False: no version increment, no history row), and a call for a different
\* status is applied on top of what is stored.
C21_RaceSecondIsNoOp ==
    \A o \in OrderIds : \A i \in 1 .. Len(events[o]) :
       LET e == events[o][i]
       IN  /\ e.before.status = e.to => ~ e.ret /\ e.after = e.before
           /\ e.before.status # e.to =>
                 /\ e.ret
                 /\ e.after.status = e.to
                 /\ e.after.version = e.before.version + 1

\* the steps in which request r reads is_stale
ReadsIsStale(r) == proc'[Request(r)].kind = "is_stale" /\ proc'[Request(r)] # proc[Request(r)]

\* C22: is_stale is true iff the status is pending, processing or shipped and
\* the time since current_state_since is more than 5, 10 or 60 minutes
\* respectively; it is false for delivered, cancelled and failed at any age;
\* reading it changes no stored state.
C22_IsStale ==
    [][\A r \in Requests :
          ReadsIsStale(r) =>
             LET o == proc'[Request(r)].order
                 age == now - orders[o].current_state_since
             IN  /\ proc'[Request(r)].ret = "True" <=>
                       \/ orders[o].status = "pending" /\ age > 5
                       \/ orders[o].status = "processing" /\ age > 10
                       \/ orders[o].status = "shipped" /\ age > 60
                 /\ orders[o].status \in {"delivered", "cancelled", "failed"} =>
                       proc'[Request(r)].ret = "False"
                 /\ UNCHANGED <<ledgerVars, callVars, inventory0, orderVars, queue, creq,
                                now, history, events, settlements>>]_vars

\* a shipped order read as stale after 61 minutes, beside an order of the same
\* age in a terminal status
C22_Witness ==
    \E r \in Requests : \E o \in OrderIds :
       /\ proc[Request(r)].kind = "is_stale" /\ proc[Request(r)].ret = "True"
       /\ proc[Request(r)].order = o
       /\ orders[o].status = "shipped"
       /\ now - orders[o].current_state_since = 61
       /\ \E o2 \in OrderIds :
             /\ orders[o2].status \in TerminalStatuses
             /\ orders[o2].current_state_since = orders[o].current_state_since

\* C24: a status transition is one atomic unit: in every state the stored
\* status and version of an order have left their initial values iff a history
\* row records it, and the latest history row leads to the stored status; no
\* state has the status changed with its row missing, or a row without the
\* change.
C24_TransitionAtomic ==
    \A o \in OrderIds :
       orders[o].exists =>
          IF history[o] = << >>
          THEN orders[o].status = "pending" /\ orders[o].version = 1
          ELSE history[o][Len(history[o])].to_status = orders[o].status

\* C25: when a release_stock or fulfill_order call made by the post-save
\* handler of a transition to cancelled, failed or delivered returns False, the
\* transition does not carry on as if it had succeeded: the update_status call
\* ends in an error for its caller, or a retry is queued.
C25_FailedSettlementSurfaced ==
    [][\A P \in ProcIds :
          (/\ proc[P].pc = "signal"
           /\ Len(settlements'[proc[P].order]) > Len(settlements[proc[P].order])
           /\ proc'[P] # proc[P]
           /\ settlements'[proc[P].order][Len(settlements'[proc[P].order])].ret = "False") =>
             \/ proc'[P].pc = "error"
             \/ queue' # queue]_vars

\* C27: a cancellation (only the cancel API and the admin action ask for the
\* status cancelled) is applied only to an order that is pending or processing:
\* a cancel request on an order in shipped, delivered, cancelled or failed
\* changes neither the order nor any inventory counter.
C27_CancelOnlyFromPendingOrProcessing ==
    \A o \in OrderIds : \A i \in 1 .. Len(events[o]) :
       LET e == events[o][i]
       IN  (e.to = "cancelled" /\ e.ret) =>
              /\ e.from \in {"pending", "processing"}
              /\ e.before.status \in {"pending", "processing"}

\* C8: every update_status call that changes the status stores a version one
\* above the version stored before it, whichever of the worker, the reconciler,
\* the cancel API and the admin actions make the calls and however they
\* interleave.
C8_VersionStepsByOne ==
    \A o \in OrderIds : \A i \in 1 .. Len(events[o]) :
       events[o][i].ret => events[o][i].after.version = events[o][i].before.version + 1

\* the update_status calls on order o that changed the status
Changing(o) == SelectSeq(events[o], LAMBDA e : e.ret)

\* C9: every update_status call that changes the status appends one history
\* row, from the order's status before the call to the new status: once the
\* calls on an order are over it has as many rows as there were status-changing
\* calls, the last row leads to the stored status, and the from_status of each
\* call is the status that was stored when the call was made.
C9_OneHistoryRowPerChange ==
    \A o \in OrderIds :
       /\ \A i \in 1 .. Len(events[o]) :
             events[o][i].ret => events[o][i].from = events[o][i].before.status
       /\ InFlight(o) = {} =>
             /\ Len(history[o]) = Len(Changing(o))
             /\ history[o] # << >> =>
                   history[o][Len(history[o])].to_status = orders[o].status

====
